---- MODULE Spec2Model ----
(***************************************************************************)
(* Offline materials subsystem of the Eduthon client: the record store     *)
(* (src/sync/offlineDB.ts), the download / delete pipelines                *)
(* (src/sync/downloadManager.ts) and the student dashboard handlers that   *)
(* drive them (app/student/dashboard.tsx), and the older flat-list storage  *)
(* service (utils/storageService.js).                                      *)
(*                                                                         *)
(* Strings are sequences of one-character strings, byte payloads are       *)
(* sequences of small naturals.  Every `await` of the code that touches    *)
(* the file system or AsyncStorage is one atomic step of an invocation.    *)
(***************************************************************************)
EXTENDS Integers, Sequences, FiniteSets, TLC

VARIABLES
    store,          \* AsyncStorage: storage key -> stored string
    fs,             \* files on disk: path -> bytes
    dirs,           \* directories that exist
    inv,            \* the handler invocations in flight, one per slot
    shown,          \* OfflineFilesDisplay `files` state, per class
    storageStats,   \* dashboard `storageStats` state
    now,            \* wall clock read by new Date()
    faults,         \* I/O faults injected so far
    downloads,      \* downloads confirmed so far
    loads,          \* listings loaded so far
    ret,            \* what the last direct call of the record store returned
    opens,          \* openFile calls started so far
    timers          \* the setTimeout callbacks openFile has scheduled, oldest first

vars == <<store, fs, dirs, inv, shown, storageStats, now, faults, downloads, loads, ret,
          opens, timers>>

----------------------------------------------------------------------------
(* Bounds *)

MaxDownloads == 2

MaxFaults == 1

MaxTime == 1

MaxRecords == 2

MaxLoads == 1

MaxOpens == 2

Procs == {"p1", "p2"}

ClassSeq == << <<"A">>, <<"B">> >>

NameSeq == << <<"a">>, <<"b", "#">> >>

ClassCodes == {ClassSeq[i] : i \in DOMAIN ClassSeq}

\* the arguments the record store is called with directly: also a class code
\* and a name that contain the separator of the storage key
WideClassSeq == ClassSeq \o << <<"A", "_", "a">> >>

WideNameSeq == NameSeq \o << <<"a", "_", "a">> >>

WideClassCodes == {WideClassSeq[i] : i \in DOMAIN WideClassSeq}

WideNames == {WideNameSeq[i] : i \in DOMAIN WideNameSeq}

Names == {NameSeq[i] : i \in DOMAIN NameSeq}

\* a fetchable URL, one of another scheme, and a missing one
Urls == {<<"http", ":", "x">>, <<"f", "t", "p">>, <<>>}

\* a file too large for readAsStringAsync to load as one base64 string
Oversized == <<9>>

\* a file that gzip makes longer than it was
Incompressible == <<7>>

Payloads == {<<>>, <<0, 0, 0, 0>>, Oversized, Incompressible}

Statuses == {200, 404}

Platforms == {"android", "ios", "web"}

\* what a server sends with a status other than 200
ErrorPage == <<>>

Undefined == -1

ArgSizes == {Undefined, 0, 1, 2}

----------------------------------------------------------------------------
(* Strings *)

StartsWith(s, prefix) ==
    /\ Len(s) >= Len(prefix)
    /\ SubSeq(s, 1, Len(prefix)) = prefix

SafeChars == {"A", "B", "a", "b", "x", "0", "1", ".", "_", "-"}

Sanitize(name) ==
    [i \in 1..Len(name) |-> IF name[i] \in SafeChars THEN name[i] ELSE "_"]

DocumentDirectory == <<"file:///doc/">>

CacheDirectory == <<"file:///cache/">>

DownloadDir == DocumentDirectory \o <<"offlineFiles/">>

TempDir == CacheDirectory \o <<"temp/">>

TempPath(name) == TempDir \o Sanitize(name)

CompressedPath(name) == DownloadDir \o Sanitize(name) \o <<".gz">>

\* openFile: decompressedPath = tempDir + originalName
DecompressedPath(originalName) == TempDir \o originalName

StorageKey(classCode, name) ==
    <<"offline_file_">> \o classCode \o <<"_">> \o name

----------------------------------------------------------------------------
(* zlib.gzip: a magic byte followed by the run-length encoding of the input. *)

RECURSIVE RunLength(_, _)
RunLength(b, i) ==
    IF i > Len(b) THEN 0
    ELSE IF i < Len(b) /\ b[i + 1] = b[i] THEN 1 + RunLength(b, i + 1)
    ELSE 1

RECURSIVE Deflate(_)
Deflate(b) ==
    IF b = <<>> THEN <<>>
    ELSE LET k == RunLength(b, 1)
         IN  <<k, b[1]>> \o Deflate(SubSeq(b, k + 1, Len(b)))

Gzip(b) == <<31>> \o Deflate(b)

\* zlib.gunzip: rejects what does not start with the magic byte or is cut short
RECURSIVE Inflate(_)
Inflate(z) ==
    IF z = <<>> THEN <<>>
    ELSE [i \in 1..z[1] |-> z[2]] \o Inflate(SubSeq(z, 3, Len(z)))

Gunzip(b) ==
    IF b # <<>> /\ b[1] = 31 /\ (Len(b) - 1) % 2 = 0
    THEN [ok |-> TRUE, value |-> Inflate(Tail(b))]
    ELSE [ok |-> FALSE]

----------------------------------------------------------------------------
(* JSON.stringify / JSON.parse of a FileRecord *)

JSONStringify(r) ==
    <<"{", r.classCode, r.name, r.localPath, r.url, r.compressedSize,
      r.originalSize, r.isCompressed, r.savedAt, "}">>

Garbage == <<"{", "\"classCode\":">>

JSONParse(s) ==
    IF Len(s) = 10 /\ s[1] = "{" /\ s[10] = "}"
    THEN [ok |-> TRUE,
          value |-> [classCode |-> s[2], name |-> s[3], localPath |-> s[4],
                     url |-> s[5], compressedSize |-> s[6],
                     originalSize |-> s[7], isCompressed |-> s[8],
                     savedAt |-> s[9]]]
    ELSE [ok |-> FALSE]

----------------------------------------------------------------------------
(* offlineDB.ts *)

\* new Date().toISOString(): the instant written out as a string
ToISOString(t) == <<"T", t, "Z">>

\* new Date(savedAt).getTime(): the instant read back from the string
GetTime(iso) == iso[2]

OrZero(x) == IF x = Undefined THEN 0 ELSE x

FileData(classCode, name, localPath, url, compressedSize, originalSize, t) ==
    [classCode |-> classCode,
     name |-> name,
     localPath |-> localPath,
     url |-> url,
     compressedSize |-> OrZero(compressedSize),
     originalSize |-> OrZero(originalSize),
     isCompressed |-> compressedSize # Undefined,
     savedAt |-> ToISOString(t)]

\* a save that stores the two sizes in each other's place
SaveSizesSwapped(st, classCode, name, localPath, url, compressedSize, originalSize, t) ==
    LET key == StorageKey(classCode, name)
        value == JSONStringify(FileData(classCode, name, localPath, url,
                                        originalSize, compressedSize, t))
    IN  [k \in DOMAIN st \cup {key} |-> IF k = key THEN value ELSE st[k]]

SaveFileRecord(st, classCode, name, localPath, url, compressedSize, originalSize, t) ==
    LET key == StorageKey(classCode, name)
        value == JSONStringify(FileData(classCode, name, localPath, url,
                                        compressedSize, originalSize, t))
    IN  [k \in DOMAIN st \cup {key} |-> IF k = key THEN value ELSE st[k]]

CheckFileExists(st, classCode, name) ==
    StorageKey(classCode, name) \in DOMAIN st

DeleteFileRecord(st, classCode, name) ==
    [k \in DOMAIN st \ {StorageKey(classCode, name)} |-> st[k]]

NotFound == <<"File record not found">>

SyntaxError == <<"JSON Parse error">>

\* an update that creates the record it does not find
UpdateOrCreate(st, classCode, name, compressedSize, originalSize) ==
    LET key == StorageKey(classCode, name)
        fileData == IF key \in DOMAIN st /\ JSONParse(st[key]).ok
                    THEN JSONParse(st[key]).value
                    ELSE FileData(classCode, name, <<>>, <<>>, compressedSize,
                                  originalSize, 0)
        updated == [fileData EXCEPT !.compressedSize = compressedSize,
                                    !.originalSize = originalSize,
                                    !.isCompressed = TRUE]
    IN  [store |-> [k \in DOMAIN st \cup {key} |->
                        IF k = key THEN JSONStringify(updated) ELSE st[k]],
         error |-> <<>>]

\* an update that builds the record anew from its arguments
UpdateRebuilds(st, classCode, name, compressedSize, originalSize) ==
    LET key == StorageKey(classCode, name)
    IN  IF key \notin DOMAIN st
        THEN [store |-> st,
              error |-> <<"Failed to update compression info: ">> \o NotFound]
        ELSE IF ~JSONParse(st[key]).ok
        THEN [store |-> st,
              error |-> <<"Failed to update compression info: ">> \o SyntaxError]
        ELSE LET old == JSONParse(st[key]).value
                 fileData == FileData(classCode, name, old.localPath, <<>>,
                                      compressedSize, originalSize,
                                      GetTime(old.savedAt))
             IN  [store |-> [st EXCEPT ![key] = JSONStringify(fileData)],
                  error |-> <<>>]

\* updateFileCompressionInfo: the store it leaves and the error it throws
UpdateFileCompressionInfo(st, classCode, name, compressedSize, originalSize) ==
    LET key == StorageKey(classCode, name)
    IN  IF key \notin DOMAIN st
        THEN [store |-> st,
              error |-> <<"Failed to update compression info: ">> \o NotFound]
        ELSE IF ~JSONParse(st[key]).ok
        THEN [store |-> st,
              error |-> <<"Failed to update compression info: ">> \o SyntaxError]
        ELSE LET fileData == [JSONParse(st[key]).value EXCEPT
                                  !.compressedSize = compressedSize,
                                  !.originalSize = originalSize,
                                  !.isCompressed = TRUE]
             IN  [store |-> [st EXCEPT ![key] = JSONStringify(fileData)],
                  error |-> <<>>]

RECURSIVE Distinct(_)
Distinct(seq) ==
    IF seq = <<>> THEN <<>>
    ELSE LET front == Distinct(SubSeq(seq, 1, Len(seq) - 1))
         IN  IF \E i \in DOMAIN front : front[i] = seq[Len(seq)]
             THEN front
             ELSE Append(front, seq[Len(seq)])

\* AsyncStorage.getAllKeys: the keys present, in the backend's enumeration order
KeyUniverse ==
    Distinct([i \in 1..(Len(WideClassSeq) * Len(WideNameSeq)) |->
                StorageKey(WideClassSeq[((i - 1) \div Len(WideNameSeq)) + 1],
                           WideNameSeq[((i - 1) % Len(WideNameSeq)) + 1])])

GetAllKeys(st) == SelectSeq(KeyUniverse, LAMBDA k : k \in DOMAIN st)

\* a listing that gives up at the first entry it cannot parse
RECURSIVE ParseItemsAbort(_, _)
ParseItemsAbort(st, keys) ==
    IF keys = <<>> THEN <<>>
    ELSE LET parsed == JSONParse(st[Head(keys)])
         IN  IF parsed.ok
             THEN <<parsed.value>> \o ParseItemsAbort(st, Tail(keys))
             ELSE <<>>

\* items.map(JSON.parse or null).filter(Boolean)
RECURSIVE ParseItems(_, _)
ParseItems(st, keys) ==
    IF keys = <<>> THEN <<>>
    ELSE LET parsed == JSONParse(st[Head(keys)])
         IN  (IF parsed.ok THEN <<parsed.value>> ELSE <<>>)
             \o ParseItems(st, Tail(keys))

\* files.sort((a, b) => b.savedAt - a.savedAt): stable, newest first
RECURSIVE InsertBySavedAt(_, _)
InsertBySavedAt(sorted, r) ==
    IF sorted = <<>> THEN <<r>>
    ELSE IF GetTime(Head(sorted).savedAt) - GetTime(r.savedAt) >= 0
         THEN <<Head(sorted)>> \o InsertBySavedAt(Tail(sorted), r)
         ELSE <<r>> \o sorted

\* a listing left in the order of its keys
KeyOrder(files) == files

RECURSIVE SortBySavedAt(_)
SortBySavedAt(files) ==
    IF files = <<>> THEN <<>>
    ELSE InsertBySavedAt(SortBySavedAt(SubSeq(files, 1, Len(files) - 1)),
                         files[Len(files)])

GetOfflineFiles(st, classCode) ==
    LET prefix == <<"offline_file_">> \o classCode \o <<"_">>
        classKeys == SelectSeq(GetAllKeys(st), LAMBDA k : StartsWith(k, prefix))
    IN  SortBySavedAt(ParseItems(st, classKeys))

GetAllOfflineFiles(st) ==
    LET fileKeys == SelectSeq(GetAllKeys(st),
                              LAMBDA k : StartsWith(k, <<"offline_file_">>))
    IN  SortBySavedAt(ParseItems(st, fileKeys))

\* the estimate without its fallback to the compressed size
EstimatedSizeNoFallback(file) == file.originalSize

\* file.originalSize || (file.compressedSize || 0)
EstimatedSize(file) ==
    IF file.originalSize # 0 THEN file.originalSize ELSE file.compressedSize

\* allFiles.reduce((sum, file) => sum + (file.compressedSize || 0), 0)
RECURSIVE TotalSpaceUsed(_)
TotalSpaceUsed(files) ==
    IF files = <<>> THEN 0
    ELSE Head(files).compressedSize + TotalSpaceUsed(Tail(files))

RECURSIVE EstimatedSpace(_)
EstimatedSpace(files) ==
    IF files = <<>> THEN 0
    ELSE EstimatedSize(Head(files)) + EstimatedSpace(Tail(files))

\* the count getTotalSpaceSaved takes: compressed files with both sizes set
CountedAsSpaceSaved(allFiles) ==
    Len(SelectSeq(allFiles, LAMBDA f :
            f.isCompressed /\ f.compressedSize # 0 /\ f.originalSize # 0))

\* totalFiles: allFiles.length
CountedFiles(allFiles) == Len(allFiles)

GetStorageStats(st) ==
    LET allFiles == GetAllOfflineFiles(st)
        compressedFiles == SelectSeq(allFiles, LAMBDA f : f.isCompressed)
        totalSpaceUsed == TotalSpaceUsed(allFiles)
        estimated == EstimatedSpace(allFiles)
    IN  [totalFiles |-> CountedFiles(allFiles),
         compressedFiles |-> Len(compressedFiles),
         totalSpaceUsed |-> totalSpaceUsed,
         estimatedSpaceWithoutCompression |-> estimated,
         spaceSaved |-> estimated - totalSpaceUsed]

----------------------------------------------------------------------------
(* expo-file-system, as the pipelines use it *)

FileExists(path) == path \in DOMAIN fs

\* getInfoAsync(path).size || 0
SizeOrZero(path) == IF FileExists(path) THEN Len(fs[path]) ELSE 0

WriteFile(files, path, bytes) ==
    [q \in DOMAIN files \cup {path} |-> IF q = path THEN bytes ELSE files[q]]

RemoveFile(files, path) == [q \in DOMAIN files \ {path} |-> files[q]]

\* a directory deletion that leaves the files behind
KeepTree(files, dir) == files

\* deleteAsync(dir): the directory goes with everything under it
RemoveTree(files, dir) ==
    [q \in {f \in DOMAIN files : ~StartsWith(f, dir)} |-> files[q]]

----------------------------------------------------------------------------
(* Error messages, as sequences of the fragments the code tests for *)

AlreadyDownloaded == <<"File ", "already downloaded", ". Check offline materials.">>

NetworkRequestFailed == <<"Network request failed">>

IOError == <<"I/O error">>

InvalidUrl == <<"Invalid file URL">>

BadStatus == <<"Download failed with status: ", "404">>

Includes(message, fragment) == \E i \in DOMAIN message : message[i] = fragment

\* downloadManager.ts, the catch block of downloadAndStore
UserFriendly(message) ==
    IF Includes(message, "already downloaded") THEN message
    ELSE IF Includes(message, "Network request failed")
         THEN <<"Network error. Please check your internet connection.">>
         ELSE <<"Download failed: ">> \o message

----------------------------------------------------------------------------
(* Handler invocations *)

Idle ==
    [op |-> "none", pc |-> "idle",
     classCode |-> <<>>, name |-> <<>>, url |-> <<>>, localPath |-> <<>>,
     originalSize |-> 0, compressedData |-> <<>>, compressedSize |-> 0,
     thrown |-> <<>>, error |-> <<>>, result |-> <<>>,
     \* history of the invocation, read by the properties only
     fetched |-> FALSE, diskIO |-> FALSE, body |-> <<>>, status |-> 0,
     fallback |-> FALSE, wroteDurable |-> FALSE, failedAt |-> "",
     count0 |-> 0, wasLive |-> FALSE, hadEntry |-> FALSE, hadFile |-> FALSE,
     \* openFile: its locals, and the history of its hand-off
     decompressedData |-> <<>>, id |-> 0, wroteScratch |-> FALSE,
     platform |-> "", viewer |-> "", linking |-> "",
     \* downloadMaterial: its locals
     used |-> 0, fileSize |-> 0, timestamp |-> 0, size |-> 0, list |-> <<>>]

InFlight(p) == inv[p].pc \notin {"idle", "done"}

Quiet == \A p \in Procs : ~InFlight(p)

OutcomeSet == IF faults < MaxFaults THEN {"ok", "fail"} ELSE {"ok"}

Charge(outcome) == faults' = IF outcome = "fail" THEN faults + 1 ELSE faults

Become(p, r) == inv' = [inv EXCEPT ![p] = r]

\* an exception reaching the catch block of downloadAndStore
Throw(r, message) ==
    [r EXCEPT !.pc = "cleanup", !.thrown = message, !.failedAt = r.pc]

\* handleSaveOffline(classCode, material) is pressed
SaveOffline(p, c, n, u) ==
    /\ inv[p].pc = "idle"
    /\ downloads < MaxDownloads
    /\ Become(p, [Idle EXCEPT !.op = "download", !.pc = "precheck",
                               !.classCode = c, !.name = n, !.url = u])
    /\ UNCHANGED <<store, fs, dirs, shown, storageStats, now, faults, downloads, loads, ret, opens, timers>>

\* dashboard: checkFileExists before the confirmation dialog
Precheck(p) ==
    /\ inv[p].pc = "precheck"
    /\ IF CheckFileExists(store, inv[p].classCode, inv[p].name)
       THEN Become(p, [inv[p] EXCEPT !.pc = "done", !.error = <<"Already Saved">>])
       ELSE Become(p, [inv[p] EXCEPT !.pc = "alert"])
    /\ UNCHANGED <<store, fs, dirs, shown, storageStats, now, faults, downloads, loads, ret, opens, timers>>

CancelDownload(p) ==
    /\ inv[p].pc = "alert"
    /\ inv[p].op = "download"
    /\ Become(p, Idle)
    /\ UNCHANGED <<store, fs, dirs, shown, storageStats, now, faults, downloads, loads, ret, opens, timers>>

\* 'Download & Compress' is pressed: downloadAndStore starts
ConfirmDownload(p) ==
    /\ inv[p].pc = "alert"
    /\ inv[p].op = "download"
    /\ downloads < MaxDownloads
    /\ Become(p, [inv[p] EXCEPT !.pc = "check",
                   !.count0 = GetStorageStats(store).totalFiles,
                   !.hadEntry = CheckFileExists(store, inv[p].classCode, inv[p].name)])
    /\ downloads' = downloads + 1
    /\ UNCHANGED <<store, fs, dirs, shown, storageStats, now, faults, loads, ret, opens, timers>>

\* Step 1: checkFileExists
DlCheck(p) ==
    /\ inv[p].pc = "check"
    /\ IF CheckFileExists(store, inv[p].classCode, inv[p].name)
       THEN Become(p, Throw(inv[p], AlreadyDownloaded))
       ELSE Become(p, [inv[p] EXCEPT !.pc = "mkdir"])
    /\ UNCHANGED <<store, fs, dirs, shown, storageStats, now, faults, downloads, loads, ret, opens, timers>>

\* a URL test that lets everything through
AnyUrl(u) == TRUE

ValidUrl(u) == u # <<>> /\ StartsWith(u, <<"http">>)

\* makeDirectoryAsync(downloadDir), makeDirectoryAsync(tempDir), then the URL test
DlMkdir(p) ==
    /\ inv[p].pc = "mkdir"
    /\ \E outcome \in OutcomeSet :
          /\ Charge(outcome)
          /\ IF outcome = "fail"
             THEN /\ Become(p, Throw(inv[p], <<"Cannot create directories: ">> \o IOError))
                  /\ dirs' = dirs
             ELSE /\ dirs' = dirs \cup {DownloadDir, TempDir}
                  /\ LET r == [inv[p] EXCEPT
                                  !.diskIO = @ \/ ~({DownloadDir, TempDir} \subseteq dirs)]
                     IN  IF ValidUrl(inv[p].url)
                         THEN Become(p, [r EXCEPT !.pc = "fetch"])
                         ELSE Become(p, Throw(r, InvalidUrl))
    /\ UNCHANGED <<store, fs, shown, storageStats, now, downloads, loads, ret, opens, timers>>

\* Step 2: downloadAsync(url, tempPath), then the status test
DlFetch(p) ==
    /\ inv[p].pc = "fetch"
    /\ \E outcome \in OutcomeSet, status \in Statuses, body \in Payloads :
          /\ status # 200 => body = ErrorPage
          /\ Charge(outcome)
          /\ IF outcome = "fail"
             THEN /\ Become(p, Throw(inv[p], NetworkRequestFailed))
                  /\ fs' = fs
             ELSE IF TempDir \notin dirs
             THEN /\ Become(p, Throw([inv[p] EXCEPT !.fetched = TRUE], IOError))
                  /\ fs' = fs
             ELSE /\ fs' = WriteFile(fs, TempPath(inv[p].name), body)
                  /\ LET r == [inv[p] EXCEPT !.fetched = TRUE, !.diskIO = TRUE,
                                               !.body = body, !.status = status]
                     IN  IF status # 200
                         THEN Become(p, Throw(r, BadStatus))
                         ELSE Become(p, [r EXCEPT !.pc = "size"])
    /\ UNCHANGED <<store, dirs, shown, storageStats, now, downloads, loads, ret, opens, timers>>

\* a pipeline that saves the record before it compresses and writes the file
SaveBeforeWrite(p) ==
    /\ inv[p].pc = "size"
    /\ Become(p, [inv[p] EXCEPT !.pc = "save",
                    !.originalSize = SizeOrZero(TempPath(inv[p].name))])
    /\ UNCHANGED <<store, fs, dirs, shown, storageStats, now, faults, downloads, loads, ret, opens, timers>>

\* getInfoAsync(tempPath): originalSize
DlSize(p) ==
    /\ inv[p].pc = "size"
    /\ \E outcome \in OutcomeSet :
          /\ Charge(outcome)
          /\ IF outcome = "fail"
             THEN Become(p, Throw(inv[p], IOError))
             ELSE Become(p, [inv[p] EXCEPT !.pc = "read",
                              !.originalSize = SizeOrZero(TempPath(inv[p].name))])
    /\ UNCHANGED <<store, fs, dirs, shown, storageStats, now, downloads, loads, ret, opens, timers>>

\* Step 3: readAsStringAsync(tempPath) and zlib.gzip; a failure of either is
\* caught by the compression catch, which falls back to a plain copy
DlRead(p) ==
    /\ inv[p].pc = "read"
    /\ \E outcome \in OutcomeSet :
          /\ Charge(outcome)
          /\ IF \/ outcome = "fail"
                \/ ~FileExists(TempPath(inv[p].name))
                \/ fs[TempPath(inv[p].name)] = Oversized
             THEN Become(p, [inv[p] EXCEPT !.pc = "copy", !.fallback = TRUE])
             ELSE Become(p, [inv[p] EXCEPT !.pc = "write",
                              !.compressedData = Gzip(fs[TempPath(inv[p].name)])])
    /\ UNCHANGED <<store, fs, dirs, shown, storageStats, now, downloads, loads, ret, opens, timers>>

\* writeAsStringAsync(compressedPath, compressedData)
DlWrite(p) ==
    /\ inv[p].pc = "write"
    /\ \E outcome \in OutcomeSet :
          /\ Charge(outcome)
          /\ IF outcome = "fail" \/ DownloadDir \notin dirs
             THEN /\ Become(p, [inv[p] EXCEPT !.pc = "copy", !.fallback = TRUE,
                                               !.compressedData = <<>>])
                  /\ fs' = fs
             ELSE /\ fs' = WriteFile(fs, CompressedPath(inv[p].name),
                                      inv[p].compressedData)
                  /\ Become(p, [inv[p] EXCEPT !.pc = "csize", !.diskIO = TRUE,
                                               !.wroteDurable = TRUE,
                                               !.compressedData = <<>>])
    /\ UNCHANGED <<store, dirs, shown, storageStats, now, downloads, loads, ret, opens, timers>>

\* getInfoAsync(compressedPath): compressedSize
DlCSize(p) ==
    /\ inv[p].pc = "csize"
    /\ \E outcome \in OutcomeSet :
          /\ Charge(outcome)
          /\ IF outcome = "fail"
             THEN Become(p, [inv[p] EXCEPT !.pc = "copy", !.fallback = TRUE])
             ELSE Become(p, [inv[p] EXCEPT !.pc = "rmtemp",
                              !.compressedSize = SizeOrZero(CompressedPath(inv[p].name))])
    /\ UNCHANGED <<store, fs, dirs, shown, storageStats, now, downloads, loads, ret, opens, timers>>

\* the fallback: copyAsync({from: tempPath, to: compressedPath})
DlCopy(p) ==
    /\ inv[p].pc = "copy"
    /\ \E outcome \in OutcomeSet :
          /\ Charge(outcome)
          /\ IF \/ outcome = "fail"
                \/ ~FileExists(TempPath(inv[p].name))
                \/ DownloadDir \notin dirs
             THEN /\ Become(p, Throw(inv[p], IOError))
                  /\ fs' = fs
             ELSE /\ fs' = WriteFile(fs, CompressedPath(inv[p].name),
                                      fs[TempPath(inv[p].name)])
                  /\ Become(p, [inv[p] EXCEPT !.pc = "fsize", !.diskIO = TRUE,
                                               !.wroteDurable = TRUE])
    /\ UNCHANGED <<store, dirs, shown, storageStats, now, downloads, loads, ret, opens, timers>>

\* getInfoAsync(compressedPath) of the fallback file
DlFSize(p) ==
    /\ inv[p].pc = "fsize"
    /\ \E outcome \in OutcomeSet :
          /\ Charge(outcome)
          /\ IF outcome = "fail"
             THEN Become(p, Throw(inv[p], IOError))
             ELSE Become(p, [inv[p] EXCEPT !.pc = "rmtemp",
                              !.compressedSize = SizeOrZero(CompressedPath(inv[p].name))])
    /\ UNCHANGED <<store, fs, dirs, shown, storageStats, now, downloads, loads, ret, opens, timers>>

\* a scratch deletion whose failure fails the download
DlRmTempStrict(p) ==
    /\ inv[p].pc = "rmtemp"
    /\ \E outcome \in OutcomeSet :
          /\ Charge(outcome)
          /\ IF outcome = "fail" \/ ~FileExists(TempPath(inv[p].name))
             THEN /\ fs' = fs
                  /\ Become(p, Throw(inv[p], IOError))
             ELSE /\ fs' = RemoveFile(fs, TempPath(inv[p].name))
                  /\ Become(p, [inv[p] EXCEPT !.pc = "save", !.diskIO = TRUE])
    /\ UNCHANGED <<store, dirs, shown, storageStats, now, downloads, loads, ret, opens, timers>>

\* deleteAsync(tempPath); an error is logged and dropped
DlRmTemp(p) ==
    /\ inv[p].pc = "rmtemp"
    /\ \E outcome \in OutcomeSet :
          /\ Charge(outcome)
          /\ IF outcome = "fail" \/ ~FileExists(TempPath(inv[p].name))
             THEN /\ fs' = fs
                  /\ Become(p, [inv[p] EXCEPT !.pc = "save"])
             ELSE /\ fs' = RemoveFile(fs, TempPath(inv[p].name))
                  /\ Become(p, [inv[p] EXCEPT !.pc = "save", !.diskIO = TRUE])
    /\ UNCHANGED <<store, dirs, shown, storageStats, now, downloads, loads, ret, opens, timers>>

\* new Date() does not run backwards
Clock == IF now < MaxTime THEN {now, now + 1} ELSE {now}

\* Step 4: saveFileRecord(classCode, name, compressedPath, url, compressedSize,
\* originalSize), then return compressedPath
DlSave(p) ==
    /\ inv[p].pc = "save"
    /\ \E outcome \in OutcomeSet, t \in Clock :
          /\ Charge(outcome)
          /\ IF outcome = "fail"
             THEN /\ Become(p, Throw(inv[p], <<"Failed to save file: ">> \o IOError))
                  /\ UNCHANGED <<store, now>>
             ELSE /\ now' = t
                  /\ store' = SaveFileRecord(store, inv[p].classCode, inv[p].name,
                                              CompressedPath(inv[p].name), inv[p].url,
                                              inv[p].compressedSize,
                                              inv[p].originalSize, t)
                  /\ Become(p, [inv[p] EXCEPT !.pc = "stats",
                                   !.result = CompressedPath(inv[p].name)])
    /\ UNCHANGED <<fs, dirs, shown, storageStats, downloads, loads, ret, opens, timers>>

\* the catch block: deleteAsync(tempDir, {idempotent: true}), errors dropped,
\* then the error is rethrown with a user-friendly message
DlCleanup(p) ==
    /\ inv[p].pc = "cleanup"
    /\ \E outcome \in OutcomeSet :
          /\ Charge(outcome)
          /\ IF outcome = "fail" \/ TempDir \notin dirs
             THEN /\ UNCHANGED <<fs, dirs>>
                  /\ Become(p, [inv[p] EXCEPT !.pc = "done",
                                   !.error = UserFriendly(inv[p].thrown)])
             ELSE /\ dirs' = dirs \ {TempDir}
                  /\ fs' = RemoveTree(fs, TempDir)
                  /\ Become(p, [inv[p] EXCEPT !.pc = "done", !.diskIO = TRUE,
                                   !.error = UserFriendly(inv[p].thrown)])
    /\ UNCHANGED <<store, shown, storageStats, now, downloads, loads, ret, opens, timers>>

\* loadStorageStats(): setStorageStats(await getStorageStats())
ReloadStats(p) ==
    /\ inv[p].pc = "stats"
    /\ storageStats' = GetStorageStats(store)
    /\ Become(p, [inv[p] EXCEPT !.pc = "done"])
    /\ UNCHANGED <<store, fs, dirs, shown, now, faults, downloads, loads, ret, opens, timers>>

\* the closing alert is dismissed
Finish(p) ==
    /\ inv[p].pc = "done"
    /\ Become(p, Idle)
    /\ UNCHANGED <<store, fs, dirs, shown, storageStats, now, faults, downloads, loads, ret, opens, timers>>

----------------------------------------------------------------------------
(* Deletion: handleDeleteFile(file) of the dashboard *)

\* OfflineFilesDisplay.load: setFiles(await getOfflineFiles(classCode))
Load(c) ==
    /\ loads < MaxLoads
    /\ loads' = loads + 1
    /\ shown' = [shown EXCEPT ![c] = GetOfflineFiles(store, c)]
    /\ UNCHANGED <<store, fs, dirs, inv, storageStats, now, faults, downloads, ret, opens, timers>>

\* the delete button of a listed file
DeletePressed(p, c, i) ==
    /\ inv[p].pc = "idle"
    /\ i \in DOMAIN shown[c]
    /\ Become(p, [Idle EXCEPT !.op = "delete", !.pc = "alert",
                               !.classCode = shown[c][i].classCode,
                               !.name = shown[c][i].name,
                               !.localPath = shown[c][i].localPath])
    /\ UNCHANGED <<store, fs, dirs, shown, storageStats, now, faults, downloads, loads, ret, opens, timers>>

CancelDelete(p) ==
    /\ inv[p].pc = "alert"
    /\ inv[p].op = "delete"
    /\ Become(p, Idle)
    /\ UNCHANGED <<store, fs, dirs, shown, storageStats, now, faults, downloads, loads, ret, opens, timers>>

ConfirmDelete(p) ==
    /\ inv[p].pc = "alert"
    /\ inv[p].op = "delete"
    /\ Become(p, [inv[p] EXCEPT !.pc = "dinfo",
                   !.count0 = GetStorageStats(store).totalFiles,
                   !.wasLive = \E i \in DOMAIN GetAllOfflineFiles(store) :
                        /\ GetAllOfflineFiles(store)[i].classCode = inv[p].classCode
                        /\ GetAllOfflineFiles(store)[i].name = inv[p].name,
                   !.hadEntry = CheckFileExists(store, inv[p].classCode, inv[p].name),
                   !.hadFile = FileExists(inv[p].localPath)])
    /\ UNCHANGED <<store, fs, dirs, shown, storageStats, now, faults, downloads, loads, ret, opens, timers>>

Fail(r, message) == [r EXCEPT !.pc = "done", !.error = message]

\* deleteFile without the fileInfo.exists test
DelInfoUnchecked(p) ==
    /\ inv[p].pc = "dinfo"
    /\ \E outcome \in OutcomeSet :
          /\ Charge(outcome)
          /\ IF outcome = "fail"
             THEN Become(p, Fail(inv[p], IOError))
             ELSE Become(p, [inv[p] EXCEPT !.pc = "dfile"])
    /\ UNCHANGED <<store, fs, dirs, shown, storageStats, now, downloads, loads, ret, opens, timers>>

\* deleteFile: getInfoAsync(filePath)
DelInfo(p) ==
    /\ inv[p].pc = "dinfo"
    /\ \E outcome \in OutcomeSet :
          /\ Charge(outcome)
          /\ IF outcome = "fail"
             THEN Become(p, Fail(inv[p], IOError))
             ELSE IF FileExists(inv[p].localPath)
                  THEN Become(p, [inv[p] EXCEPT !.pc = "dfile"])
                  ELSE Become(p, [inv[p] EXCEPT !.pc = "drec"])
    /\ UNCHANGED <<store, fs, dirs, shown, storageStats, now, downloads, loads, ret, opens, timers>>

\* deleteFile: deleteAsync(filePath), not idempotent
DelFile(p) ==
    /\ inv[p].pc = "dfile"
    /\ \E outcome \in OutcomeSet :
          /\ Charge(outcome)
          /\ IF outcome = "fail" \/ ~FileExists(inv[p].localPath)
             THEN /\ Become(p, Fail(inv[p], IOError))
                  /\ fs' = fs
             ELSE /\ fs' = RemoveFile(fs, inv[p].localPath)
                  /\ Become(p, [inv[p] EXCEPT !.pc = "drec", !.diskIO = TRUE])
    /\ UNCHANGED <<store, dirs, shown, storageStats, now, downloads, loads, ret, opens, timers>>

\* deleteFileRecord(file.classCode, file.name)
DelRecord(p) ==
    /\ inv[p].pc = "drec"
    /\ \E outcome \in OutcomeSet :
          /\ Charge(outcome)
          /\ IF outcome = "fail"
             THEN /\ Become(p, Fail(inv[p], <<"Failed to delete file: ">> \o IOError))
                  /\ store' = store
             ELSE /\ store' = DeleteFileRecord(store, inv[p].classCode, inv[p].name)
                  /\ Become(p, [inv[p] EXCEPT !.pc = "stats"])
    /\ UNCHANGED <<fs, dirs, shown, storageStats, now, downloads, loads, ret, opens, timers>>

----------------------------------------------------------------------------
(* Opening: openLocal(path, name) of the dashboard and openFile *)

FileNotFound == <<"File not found. It may have been deleted.">>

DecompressedNotFound == <<"Decompressed file not found">>

NoViewer == <<"No app found to open PDF files. Please install a PDF reader.">>

\* the rejection of Linking.openURL
LinkingError == <<"Unable to open URL">>

\* an exception reaching the catch block of openFile
OpThrow(r, message) ==
    [r EXCEPT !.pc = "ocleanup", !.thrown = message, !.failedAt = r.pc]

\* a hand-off that schedules its cleanup twice
ScheduleTwice(r) ==
    timers \o << [id |-> r.id, path |-> DecompressedPath(r.name), attempts |-> 0],
                 [id |-> r.id, path |-> DecompressedPath(r.name), attempts |-> 0] >>

\* setTimeout(..., 30000) after the hand-off
Schedule(r) ==
    Append(timers, [id |-> r.id, path |-> DecompressedPath(r.name), attempts |-> 0])

\* the open button of a listed file
OpenPressed(p, c, i) ==
    /\ inv[p].pc = "idle"
    /\ i \in DOMAIN shown[c]
    /\ opens < MaxOpens
    /\ opens' = opens + 1
    /\ Become(p, [Idle EXCEPT !.op = "open", !.pc = "oinfo",
                               !.classCode = shown[c][i].classCode,
                               !.name = shown[c][i].name,
                               !.localPath = shown[c][i].localPath,
                               !.id = opens + 1])
    /\ UNCHANGED <<store, fs, dirs, shown, storageStats, now, faults, downloads, loads, ret, timers>>

\* openFile without the compressedInfo.exists test
OpInfoUnchecked(p) ==
    /\ inv[p].pc = "oinfo"
    /\ \E outcome \in OutcomeSet :
          /\ Charge(outcome)
          /\ IF outcome = "fail"
             THEN Become(p, OpThrow(inv[p], IOError))
             ELSE Become(p, [inv[p] EXCEPT !.pc = "omkdir"])
    /\ UNCHANGED <<store, fs, dirs, shown, storageStats, now, downloads, loads, ret, opens, timers>>

\* getInfoAsync(compressedPath), then the exists test
OpInfo(p) ==
    /\ inv[p].pc = "oinfo"
    /\ \E outcome \in OutcomeSet :
          /\ Charge(outcome)
          /\ IF outcome = "fail"
             THEN Become(p, OpThrow(inv[p], IOError))
             ELSE IF ~FileExists(inv[p].localPath)
                  THEN Become(p, OpThrow(inv[p], FileNotFound))
                  ELSE Become(p, [inv[p] EXCEPT !.pc = "omkdir"])
    /\ UNCHANGED <<store, fs, dirs, shown, storageStats, now, downloads, loads, ret, opens, timers>>

\* makeDirectoryAsync(tempDir)
OpMkdir(p) ==
    /\ inv[p].pc = "omkdir"
    /\ \E outcome \in OutcomeSet :
          /\ Charge(outcome)
          /\ IF outcome = "fail"
             THEN /\ Become(p, OpThrow(inv[p], IOError))
                  /\ dirs' = dirs
             ELSE /\ dirs' = dirs \cup {TempDir}
                  /\ Become(p, [inv[p] EXCEPT !.pc = "oread"])
    /\ UNCHANGED <<store, fs, shown, storageStats, now, downloads, loads, ret, opens, timers>>

\* a decompression whose failure is thrown instead of recovered
OpReadStrict(p) ==
    /\ inv[p].pc = "oread"
    /\ \E outcome \in OutcomeSet :
          /\ Charge(outcome)
          /\ IF \/ outcome = "fail"
                \/ ~FileExists(inv[p].localPath)
                \/ fs[inv[p].localPath] = Oversized
                \/ ~Gunzip(fs[inv[p].localPath]).ok
             THEN Become(p, OpThrow(inv[p], <<"incorrect header check">>))
             ELSE Become(p, [inv[p] EXCEPT !.pc = "owrite",
                              !.decompressedData = Gunzip(fs[inv[p].localPath]).value])
    /\ UNCHANGED <<store, fs, dirs, shown, storageStats, now, downloads, loads, ret, opens, timers>>

\* readAsStringAsync(compressedPath) and zlib.gunzip; a failure of either is
\* caught by the decompression catch, which falls back to a plain copy
OpRead(p) ==
    /\ inv[p].pc = "oread"
    /\ \E outcome \in OutcomeSet :
          /\ Charge(outcome)
          /\ IF \/ outcome = "fail"
                \/ ~FileExists(inv[p].localPath)
                \/ fs[inv[p].localPath] = Oversized
                \/ ~Gunzip(fs[inv[p].localPath]).ok
             THEN Become(p, [inv[p] EXCEPT !.pc = "ocopy", !.fallback = TRUE])
             ELSE Become(p, [inv[p] EXCEPT !.pc = "owrite",
                              !.decompressedData = Gunzip(fs[inv[p].localPath]).value])
    /\ UNCHANGED <<store, fs, dirs, shown, storageStats, now, downloads, loads, ret, opens, timers>>

\* writeAsStringAsync(decompressedPath, decompressedData)
OpWrite(p) ==
    /\ inv[p].pc = "owrite"
    /\ \E outcome \in OutcomeSet :
          /\ Charge(outcome)
          /\ IF outcome = "fail" \/ TempDir \notin dirs
             THEN /\ Become(p, [inv[p] EXCEPT !.pc = "ocopy", !.fallback = TRUE,
                                               !.decompressedData = <<>>])
                  /\ fs' = fs
             ELSE /\ fs' = WriteFile(fs, DecompressedPath(inv[p].name),
                                      inv[p].decompressedData)
                  /\ Become(p, [inv[p] EXCEPT !.pc = "overify", !.wroteScratch = TRUE,
                                               !.decompressedData = <<>>])
    /\ UNCHANGED <<store, dirs, shown, storageStats, now, downloads, loads, ret, opens, timers>>

\* the fallback: copyAsync({from: compressedPath, to: decompressedPath})
OpCopy(p) ==
    /\ inv[p].pc = "ocopy"
    /\ \E outcome \in OutcomeSet :
          /\ Charge(outcome)
          /\ IF \/ outcome = "fail"
                \/ ~FileExists(inv[p].localPath)
                \/ TempDir \notin dirs
             THEN /\ Become(p, OpThrow(inv[p], IOError))
                  /\ fs' = fs
             ELSE /\ fs' = WriteFile(fs, DecompressedPath(inv[p].name),
                                      fs[inv[p].localPath])
                  /\ Become(p, [inv[p] EXCEPT !.pc = "overify", !.wroteScratch = TRUE])
    /\ UNCHANGED <<store, dirs, shown, storageStats, now, downloads, loads, ret, opens, timers>>

\* getInfoAsync(decompressedPath), then the exists test
OpVerify(p) ==
    /\ inv[p].pc = "overify"
    /\ \E outcome \in OutcomeSet :
          /\ Charge(outcome)
          /\ IF outcome = "fail"
             THEN Become(p, OpThrow(inv[p], IOError))
             ELSE IF ~FileExists(DecompressedPath(inv[p].name))
                  THEN Become(p, OpThrow(inv[p], DecompressedNotFound))
                  ELSE Become(p, [inv[p] EXCEPT !.pc = "oview"])
    /\ UNCHANGED <<store, fs, dirs, shown, storageStats, now, downloads, loads, ret, opens, timers>>

\* the branch on Platform.OS and the platform's viewer: IntentLauncher on
\* android, Sharing on ios, none elsewhere; on success the cleanup is scheduled
OpView(p) ==
    /\ inv[p].pc = "oview"
    /\ \E os \in Platforms, ok \in BOOLEAN :
          LET r == [inv[p] EXCEPT !.platform = os]
          IN  IF os = "web"
              THEN /\ ok
                   /\ Become(p, [r EXCEPT !.pc = "olink"])
                   /\ timers' = timers
              ELSE IF ok
              THEN /\ Become(p, [r EXCEPT !.pc = "done", !.viewer = "ok"])
                   /\ timers' = Schedule(r)
              ELSE /\ Become(p, [r EXCEPT !.viewer = "failed",
                                          !.pc = IF os = "android" THEN "ocan" ELSE "olink"])
                   /\ timers' = timers
    /\ UNCHANGED <<store, fs, dirs, shown, storageStats, now, faults, downloads, loads, ret, opens>>

\* android, after IntentLauncher failed: Linking.canOpenURL(decompressedPath)
OpCan(p) ==
    /\ inv[p].pc = "ocan"
    /\ \E supported \in BOOLEAN :
          IF supported
          THEN Become(p, [inv[p] EXCEPT !.pc = "olink"])
          ELSE Become(p, OpThrow([inv[p] EXCEPT !.linking = "unavailable"], NoViewer))
    /\ UNCHANGED <<store, fs, dirs, shown, storageStats, now, faults, downloads, loads, ret, opens, timers>>

\* Linking.openURL(decompressedPath); on success the cleanup is scheduled
OpLink(p) ==
    /\ inv[p].pc = "olink"
    /\ \E result \in {"ok", "unavailable", "failed"} :
          /\ (inv[p].platform = "android") => result # "unavailable"
          /\ IF result = "ok"
             THEN /\ Become(p, [inv[p] EXCEPT !.pc = "done", !.linking = "ok"])
                  /\ timers' = Schedule(inv[p])
             ELSE /\ Become(p, OpThrow([inv[p] EXCEPT !.linking = result], LinkingError))
                  /\ timers' = timers
    /\ UNCHANGED <<store, fs, dirs, shown, storageStats, now, faults, downloads, loads, ret, opens>>

\* the catch block: deleteAsync(tempDir, {idempotent: true}), errors dropped,
\* then throw new Error(error.message || ...)
OpCleanup(p) ==
    /\ inv[p].pc = "ocleanup"
    /\ \E outcome \in OutcomeSet :
          /\ Charge(outcome)
          /\ IF outcome = "fail" \/ TempDir \notin dirs
             THEN UNCHANGED <<fs, dirs>>
             ELSE /\ dirs' = dirs \ {TempDir}
                  /\ fs' = RemoveTree(fs, TempDir)
          /\ Become(p, [inv[p] EXCEPT !.pc = "done", !.error = inv[p].thrown])
    /\ UNCHANGED <<store, shown, storageStats, now, downloads, loads, ret, opens, timers>>

Pending == {i \in DOMAIN timers : timers[i].attempts = 0}

\* the callback of the oldest pending setTimeout runs: deleteAsync(decompressedPath),
\* an error is logged and dropped
Timeout ==
    /\ Pending # {}
    /\ LET i == CHOOSE j \in Pending : \A k \in Pending : j <= k
       IN  /\ timers' = [timers EXCEPT ![i].attempts = @ + 1]
           /\ \E outcome \in OutcomeSet :
                 /\ Charge(outcome)
                 /\ IF outcome = "fail" \/ ~FileExists(timers[i].path)
                    THEN fs' = fs
                    ELSE fs' = RemoveFile(fs, timers[i].path)
    /\ UNCHANGED <<store, dirs, inv, shown, storageStats, now, downloads, loads, ret, opens>>

----------------------------------------------------------------------------
(* utils/storageService.js: the flat list of downloaded materials *)

STORAGE_KEY == <<"downloaded_materials">>

MAX_STORAGE_SIZE == 100 * 1024 * 1024

FlatUrls == {<<"http", ":", "x">>, <<"http", ":", "y">>}

\* the file a URL serves
Remote(u) == IF u = <<"http", ":", "x">> THEN <<0, 0, 0, 0>> ELSE Incompressible

DownloadsDir == DocumentDirectory \o <<"downloads/">>

\* JSON.stringify / JSON.parse of the list
StringifyList(list) == <<"[">> \o list \o <<"]">>

ParseList(s) ==
    IF Len(s) >= 2 /\ s[1] = "[" /\ s[Len(s)] = "]"
    THEN [ok |-> TRUE, value |-> SubSeq(s, 2, Len(s) - 1)]
    ELSE [ok |-> FALSE]

\* getDownloadedMaterials: the parsed list, [] when nothing is stored or the
\* stored string cannot be read
GetDownloadedMaterials(st) ==
    IF STORAGE_KEY \in DOMAIN st /\ ParseList(st[STORAGE_KEY]).ok
    THEN ParseList(st[STORAGE_KEY]).value
    ELSE <<>>

\* getStorageUsage: the size of each file on disk, or the stored size
RECURSIVE StorageUsed(_)
StorageUsed(list) ==
    IF list = <<>> THEN 0
    ELSE (IF FileExists(Head(list).localPath) /\ Len(fs[Head(list).localPath]) # 0
          THEN Len(fs[Head(list).localPath])
          ELSE Head(list).size)
         + StorageUsed(Tail(list))

FlatPath(timestamp, name) == DownloadsDir \o <<timestamp, "_">> \o Sanitize(name)

MaterialData(r) ==
    [id |-> r.url \o <<"_", r.timestamp>>,
     name |-> r.name,
     url |-> r.url,
     localPath |-> r.localPath,
     size |-> r.size,
     downloadDate |-> ToISOString(now),
     classCode |-> r.classCode,
     className |-> <<"Unknown Class">>]

\* saveDownloadMetadata: downloads.push(material) on the list it read earlier
AppendToRead(r) == Append(r.list, MaterialData(r))

\* downloadMaterial(material, classInfo) is called
MaterialPressed(p, c, n, u) ==
    /\ inv[p].pc = "idle"
    /\ downloads < MaxDownloads
    /\ downloads' = downloads + 1
    /\ Become(p, [Idle EXCEPT !.op = "material", !.pc = "mcheck",
                               !.classCode = c, !.name = n, !.url = u])
    /\ UNCHANGED <<store, fs, dirs, shown, storageStats, now, faults, loads, ret, opens, timers>>

\* getDownloadedMaterials, then the test for an entry of the same url
MatCheck(p) ==
    /\ inv[p].pc = "mcheck"
    /\ IF \E i \in DOMAIN GetDownloadedMaterials(store) :
              GetDownloadedMaterials(store)[i].url = inv[p].url
       THEN Become(p, Fail(inv[p], <<"Material already downloaded">>))
       ELSE Become(p, [inv[p] EXCEPT !.pc = "musage"])
    /\ UNCHANGED <<store, fs, dirs, shown, storageStats, now, faults, downloads, loads, ret, opens, timers>>

\* getStorageUsage, then the test of the limit
MatUsage(p) ==
    /\ inv[p].pc = "musage"
    /\ LET used == StorageUsed(GetDownloadedMaterials(store))
       IN  IF used >= MAX_STORAGE_SIZE
           THEN Become(p, Fail(inv[p], <<"Storage limit reached (100MB). Please delete some files.">>))
           ELSE Become(p, [inv[p] EXCEPT !.pc = "mhead", !.used = used])
    /\ UNCHANGED <<store, fs, dirs, shown, storageStats, now, faults, downloads, loads, ret, opens, timers>>

\* fetch(url, {method: 'HEAD'}): the content-length header, when there is one
MatHead(p) ==
    /\ inv[p].pc = "mhead"
    /\ \E outcome \in OutcomeSet, fileSize \in {0, Len(Remote(inv[p].url))} :
          /\ Charge(outcome)
          /\ IF outcome = "fail"
             THEN /\ fileSize = 0
                  /\ Become(p, Fail(inv[p], NetworkRequestFailed))
             ELSE IF fileSize # 0 /\ inv[p].used + fileSize > MAX_STORAGE_SIZE
                  THEN Become(p, Fail(inv[p], <<"File is too large.">>))
                  ELSE Become(p, [inv[p] EXCEPT !.pc = "mdir", !.fileSize = fileSize])
    /\ UNCHANGED <<store, fs, dirs, shown, storageStats, now, downloads, loads, ret, opens, timers>>

\* getInfoAsync(downloadsDir); Date.now() is read once the directory is there
MatDirInfo(p) ==
    /\ inv[p].pc = "mdir"
    /\ \E t \in Clock :
          IF DownloadsDir \in dirs
          THEN /\ now' = t
               /\ Become(p, [inv[p] EXCEPT !.pc = "mfetch", !.timestamp = t,
                                !.localPath = FlatPath(t, inv[p].name)])
          ELSE /\ t = now
               /\ now' = now
               /\ Become(p, [inv[p] EXCEPT !.pc = "mmkdir"])
    /\ UNCHANGED <<store, fs, dirs, shown, storageStats, faults, downloads, loads, ret, opens, timers>>

\* makeDirectoryAsync(downloadsDir, {intermediates: true})
MatMkdir(p) ==
    /\ inv[p].pc = "mmkdir"
    /\ \E outcome \in OutcomeSet, t \in Clock :
          /\ Charge(outcome)
          /\ IF outcome = "fail"
             THEN /\ t = now
                  /\ UNCHANGED <<dirs, now>>
                  /\ Become(p, Fail(inv[p], IOError))
             ELSE /\ dirs' = dirs \cup {DownloadsDir}
                  /\ now' = t
                  /\ Become(p, [inv[p] EXCEPT !.pc = "mfetch", !.timestamp = t,
                                   !.localPath = FlatPath(t, inv[p].name)])
    /\ UNCHANGED <<store, fs, shown, storageStats, downloads, loads, ret, opens, timers>>

\* downloadAsync(material.url, localPath)
MatFetch(p) ==
    /\ inv[p].pc = "mfetch"
    /\ \E outcome \in OutcomeSet :
          /\ Charge(outcome)
          /\ IF outcome = "fail" \/ DownloadsDir \notin dirs
             THEN /\ fs' = fs
                  /\ Become(p, Fail(inv[p], NetworkRequestFailed))
             ELSE /\ fs' = WriteFile(fs, inv[p].localPath, Remote(inv[p].url))
                  /\ Become(p, [inv[p] EXCEPT !.pc = "msize", !.fetched = TRUE])
    /\ UNCHANGED <<store, dirs, shown, storageStats, now, downloads, loads, ret, opens, timers>>

\* getInfoAsync(localPath): actualSize = fileInfo.size || fileSize || 0
MatSize(p) ==
    /\ inv[p].pc = "msize"
    /\ \E outcome \in OutcomeSet :
          /\ Charge(outcome)
          /\ IF outcome = "fail"
             THEN Become(p, Fail(inv[p], IOError))
             ELSE Become(p, [inv[p] EXCEPT !.pc = "mread",
                              !.size = IF SizeOrZero(inv[p].localPath) # 0
                                       THEN SizeOrZero(inv[p].localPath)
                                       ELSE inv[p].fileSize])
    /\ UNCHANGED <<store, fs, dirs, shown, storageStats, now, downloads, loads, ret, opens, timers>>

\* saveDownloadMetadata: downloads = await getDownloadedMaterials()
MatRead(p) ==
    /\ inv[p].pc = "mread"
    /\ Become(p, [inv[p] EXCEPT !.pc = "mwrite", !.list = GetDownloadedMaterials(store)])
    /\ UNCHANGED <<store, fs, dirs, shown, storageStats, now, faults, downloads, loads, ret, opens, timers>>

\* saveDownloadMetadata: downloads.push(material), then
\* setItem(STORAGE_KEY, JSON.stringify(downloads)); downloadMaterial returns
MatWrite(p) ==
    /\ inv[p].pc = "mwrite"
    /\ \E outcome \in OutcomeSet :
          /\ Charge(outcome)
          /\ IF outcome = "fail"
             THEN /\ store' = store
                  /\ Become(p, Fail(inv[p], IOError))
             ELSE /\ store' = [k \in DOMAIN store \cup {STORAGE_KEY} |->
                                  IF k = STORAGE_KEY
                                  THEN StringifyList(AppendToRead(inv[p]))
                                  ELSE store[k]]
                  /\ Become(p, [inv[p] EXCEPT !.pc = "done", !.list = <<>>,
                                   !.result = inv[p].localPath])
    /\ UNCHANGED <<fs, dirs, shown, storageStats, now, downloads, loads, ret, opens, timers>>

----------------------------------------------------------------------------
(* The record store called directly, one call at a time *)

NoCall == [call |-> "none"]

Pipeline == <<fs, dirs, inv, shown, storageStats, faults, downloads, loads, opens, timers>>

CallSaveFileRecord(c, n, cs, os) ==
    /\ Cardinality(DOMAIN store \cup {StorageKey(c, n)}) <= MaxRecords
    /\ \E t \in Clock :
          /\ now' = t
          /\ store' = SaveFileRecord(store, c, n, CompressedPath(n),
                                      <<"http", ":", "x">>, cs, os, t)
    /\ ret' = NoCall
    /\ UNCHANGED Pipeline

CallDeleteFileRecord(c, n) ==
    /\ store' = DeleteFileRecord(store, c, n)
    /\ ret' = NoCall
    /\ UNCHANGED <<Pipeline, now>>

\* the stored string of an entry is damaged outside the application
Damage(c, n) ==
    /\ StorageKey(c, n) \in DOMAIN store
    /\ store' = [store EXCEPT ![StorageKey(c, n)] = Garbage]
    /\ ret' = NoCall
    /\ UNCHANGED <<Pipeline, now>>

CallUpdateFileCompressionInfo(c, n, cs, os) ==
    LET out == UpdateFileCompressionInfo(store, c, n, cs, os)
    IN  /\ store' = out.store
        /\ ret' = IF out.error = <<>>
                  THEN [call |-> "updateFileCompressionInfo", classCode |-> c,
                        name |-> n, compressedSize |-> cs, originalSize |-> os,
                        error |-> out.error]
                  ELSE [call |-> "updateFileCompressionInfo", classCode |-> c,
                        name |-> n, error |-> out.error]
        /\ UNCHANGED <<Pipeline, now>>

CallGetStorageStats ==
    /\ ret' = [call |-> "getStorageStats", value |-> GetStorageStats(store)]
    /\ UNCHANGED <<Pipeline, store, now>>

CallGetAllOfflineFiles ==
    /\ ret' = [call |-> "getAllOfflineFiles", value |-> GetAllOfflineFiles(store)]
    /\ UNCHANGED <<Pipeline, store, now>>

CallGetOfflineFiles(c) ==
    /\ ret' = [call |-> "getOfflineFiles", classCode |-> c,
               value |-> GetOfflineFiles(store, c)]
    /\ UNCHANGED <<Pipeline, store, now>>

CallCheckFileExists(c, n) ==
    /\ ret' = [call |-> "checkFileExists", classCode |-> c, name |-> n,
               value |-> CheckFileExists(store, c, n)]
    /\ UNCHANGED <<Pipeline, store, now>>

----------------------------------------------------------------------------
(* Specifications *)

EmptyMap == [k \in {} |-> <<>>]

\* useState({totalFiles: 0, compressedFiles: 0, totalSpaceUsed: 0, spaceSaved: 0})
NoStats ==
    [totalFiles |-> 0, compressedFiles |-> 0, totalSpaceUsed |-> 0,
     spaceSaved |-> 0]

\* a fresh installation: nothing stored, no handler running
Fresh ==
    /\ store = EmptyMap
    /\ fs = EmptyMap
    /\ dirs = {}
    /\ inv = [p \in Procs |-> Idle]
    /\ shown = [c \in ClassCodes |-> <<>>]
    /\ storageStats = NoStats
    /\ now = 0
    /\ loads = 0
    /\ ret = NoCall
    /\ opens = 0
    /\ timers = <<>>

\* concurrent handlers fail through their inputs only (URL, HTTP status)
Init == Fresh /\ faults = MaxFaults /\ downloads = 0

InitSeq == Fresh /\ faults = 0 /\ downloads = 0

\* the runs that open files download one material only
InitOpen == Fresh /\ faults = 0 /\ downloads = MaxDownloads - 1

\* the steps of handleSaveOffline and of the downloadAndStore it awaits
StepDownload(p) ==
    \/ Precheck(p)
    \/ CancelDownload(p)
    \/ ConfirmDownload(p)
    \/ DlCheck(p)
    \/ DlMkdir(p)
    \/ DlFetch(p)
    \/ DlSize(p)
    \/ DlRead(p)
    \/ DlWrite(p)
    \/ DlCSize(p)
    \/ DlCopy(p)
    \/ DlFSize(p)
    \/ DlRmTemp(p)
    \/ DlSave(p)
    \/ DlCleanup(p)
    \/ ReloadStats(p)
    \/ Finish(p)

\* the steps of handleDeleteFile
StepDelete(p) ==
    \/ CancelDelete(p)
    \/ ConfirmDelete(p)
    \/ DelInfo(p)
    \/ DelFile(p)
    \/ DelRecord(p)

PressSave(p) ==
    \E c \in ClassCodes, n \in Names, u \in Urls : SaveOffline(p, c, n, u)

PressDelete(p) ==
    \E c \in ClassCodes, i \in 1..(Len(ClassSeq) * Len(NameSeq)) : DeletePressed(p, c, i)

\* downloads started from the dashboard, interleaved at their awaits
Next ==
    \E p \in Procs : PressSave(p) \/ StepDownload(p)

Spec == Init /\ [][Next]_vars

\* one handler at a time, download or deletion: a new one is started only
\* when none is in flight
SeqProc == CHOOSE p \in Procs : TRUE

NextSeq ==
    \/ PressSave(SeqProc)
    \/ PressDelete(SeqProc)
    \/ StepDownload(SeqProc)
    \/ StepDelete(SeqProc)
    \/ \E c \in ClassCodes : Load(c)

SpecSeq == InitSeq /\ [][NextSeq]_vars

\* the steps of openLocal and of the openFile it awaits
StepOpen(p) ==
    \/ OpInfo(p)
    \/ OpMkdir(p)
    \/ OpRead(p)
    \/ OpWrite(p)
    \/ OpCopy(p)
    \/ OpVerify(p)
    \/ OpView(p)
    \/ OpCan(p)
    \/ OpLink(p)
    \/ OpCleanup(p)

PressOpen(p) ==
    \E c \in ClassCodes, i \in 1..(Len(ClassSeq) * Len(NameSeq)) : OpenPressed(p, c, i)

\* one handler at a time, download, deletion or opening, and the timers
\* openFile leaves behind
NextOpen ==
    \/ PressSave(SeqProc)
    \/ PressDelete(SeqProc)
    \/ PressOpen(SeqProc)
    \/ StepDownload(SeqProc)
    \/ StepDelete(SeqProc)
    \/ StepOpen(SeqProc)
    \/ \E c \in ClassCodes : Load(c)
    \/ Timeout

SpecOpen == InitOpen /\ [][NextOpen]_vars

\* a timer that is due does run: the application stays alive
SpecOpenFair == InitOpen /\ [][NextOpen]_vars /\ WF_vars(Timeout)

\* the record store alone, driven through its exported functions
NextStore ==
    \/ \E c \in ClassCodes, n \in Names, cs \in ArgSizes, os \in ArgSizes :
          CallSaveFileRecord(c, n, cs, os)
    \/ \E c \in ClassCodes, n \in Names : CallDeleteFileRecord(c, n)
    \/ \E c \in ClassCodes, n \in Names, cs \in ArgSizes \ {Undefined},
          os \in ArgSizes \ {Undefined} :
          CallUpdateFileCompressionInfo(c, n, cs, os)
    \/ \E c \in ClassCodes, n \in Names : Damage(c, n)
    \/ CallGetStorageStats
    \/ CallGetAllOfflineFiles
    \/ \E c \in ClassCodes : CallGetOfflineFiles(c)
    \/ \E c \in ClassCodes, n \in Names : CallCheckFileExists(c, n)

SpecStore == InitSeq /\ [][NextStore]_vars

\* the record store called with class codes and names of every shape
NextKey ==
    \E c \in WideClassCodes, n \in WideNames :
        \/ CallSaveFileRecord(c, n, 1, 2)
        \/ CallDeleteFileRecord(c, n)
        \/ CallGetOfflineFiles(c)
        \/ CallCheckFileExists(c, n)

SpecKey == InitSeq /\ [][NextKey]_vars

\* the steps of downloadMaterial
StepMaterial(p) ==
    \/ MatCheck(p)
    \/ MatUsage(p)
    \/ MatHead(p)
    \/ MatDirInfo(p)
    \/ MatMkdir(p)
    \/ MatFetch(p)
    \/ MatSize(p)
    \/ MatRead(p)
    \/ MatWrite(p)
    \/ Finish(p)

PressMaterial(p) ==
    \E n \in Names, u \in FlatUrls : MaterialPressed(p, ClassSeq[1], n, u)

\* downloadMaterial calls of the flat-list service, interleaved at their awaits
NextFlat ==
    \E p \in Procs : PressMaterial(p) \/ StepMaterial(p)

SpecFlat == InitSeq /\ [][NextFlat]_vars

----------------------------------------------------------------------------
(* Properties *)

Downloading(p) ==
    /\ inv[p].op = "download"
    /\ inv[p].pc \notin {"idle", "precheck", "alert", "done"}

SameKey(p, q) ==
    inv[p].classCode = inv[q].classCode /\ inv[p].name = inv[q].name

Records == {GetAllOfflineFiles(store)[i] : i \in DOMAIN GetAllOfflineFiles(store)}

\* C1: a downloadAndStore started for a key that a successful download has
\* already stored ends with the already-downloaded error, and by then it has
\* fetched nothing and has created, written or deleted no file or directory.
C1_DuplicateDoesNoIO ==
    \A p \in Procs :
        (inv[p].op = "download" /\ inv[p].pc = "done" /\ inv[p].hadEntry
         /\ inv[p].failedAt = "check")
            => /\ inv[p].error = AlreadyDownloaded
               /\ ~inv[p].fetched
               /\ ~inv[p].diskIO

\* C2: two downloadAndStore invocations of one key that are in flight together
\* never both fetch the remote bytes and write the durable file.
C2_NoDoubleDownload ==
    \A p, q \in Procs :
        (p # q /\ Downloading(p) /\ Downloading(q) /\ SameKey(p, q))
            => ~(/\ inv[p].fetched /\ inv[p].wroteDurable
                 /\ inv[q].fetched /\ inv[q].wroteDurable)

\* C3: when no handler is in flight, every live record's localPath is an
\* existing file and every file of the offline directory is the localPath of
\* a live record.
C3_NoOrphans ==
    Quiet =>
        /\ \A r \in Records : FileExists(r.localPath)
        /\ \A f \in DOMAIN fs :
              StartsWith(f, DownloadDir) => \E r \in Records : r.localPath = f

\* C4: a download whose compression failed still succeeds, its record has
\* isCompressed = false and the durable file holds the fetched bytes.
C4_FallbackRecord ==
    \A p \in Procs :
        (inv[p].op = "download" /\ inv[p].pc = "stats" /\ inv[p].fallback)
            => /\ FileExists(inv[p].result)
               /\ fs[inv[p].result] = inv[p].body
               /\ \A r \in Records :
                     (r.classCode = inv[p].classCode /\ r.name = inv[p].name)
                         => ~r.isCompressed

\* C5: once a downloadAndStore that failed after the fetch has raised its
\* error, its scratch file and its durable file are gone and the key has no
\* record.
C5_CleanupAfterFailure ==
    \A p \in Procs :
        (/\ inv[p].op = "download" /\ inv[p].pc = "done"
         /\ inv[p].failedAt \in {"size", "copy", "fsize", "save"})
            => /\ ~FileExists(TempPath(inv[p].name))
               /\ ~FileExists(CompressedPath(inv[p].name))
               /\ ~CheckFileExists(store, inv[p].classCode, inv[p].name)

SecondDeletion(p) ==
    inv[p].op = "delete" /\ inv[p].pc \in {"dinfo", "dfile", "drec"}
        /\ ~inv[p].hadEntry /\ ~inv[p].hadFile

\* C6: a deletion that ends without error leaves no entry for the key and
\* no file at the path; a deletion of a key whose entry and file are already
\* gone changes neither the store nor the disk, and ends in an error only
\* when an I/O fault is injected into one of its steps.
C6_DeleteIdempotent ==
    [][\A p \in Procs :
          /\ (inv'[p].op = "delete" /\ inv'[p].pc = "stats")
                => /\ ~CheckFileExists(store', inv'[p].classCode, inv'[p].name)
                   /\ inv'[p].localPath \notin DOMAIN fs'
          /\ (SecondDeletion(p) /\ inv'[p] # inv[p])
                => /\ store' = store /\ fs' = fs /\ dirs' = dirs
                   /\ (faults' = faults => inv'[p].error = <<>>)]_vars

C6_Witness ==
    \E p \in Procs :
        /\ inv[p].op = "delete" /\ inv[p].pc = "done" /\ inv[p].error = <<>>
        /\ ~inv[p].hadEntry /\ ~inv[p].hadFile

\* C7: in every state getStorageStats().totalFiles is the length of
\* getAllOfflineFiles(), and so is the totalFiles the dashboard shows after a
\* handler; a successful download has raised it by one and a deletion of a
\* live key has lowered it by one.
C7_TotalFiles ==
    /\ GetStorageStats(store).totalFiles = Len(GetAllOfflineFiles(store))
    /\ \A p \in Procs :
        (inv[p].pc = "done" /\ inv[p].error = <<>>)
            => /\ storageStats.totalFiles = Len(GetAllOfflineFiles(store))
               /\ inv[p].op = "download"
                     => storageStats.totalFiles = inv[p].count0 + 1
               /\ (inv[p].op = "delete" /\ inv[p].wasLive)
                     => storageStats.totalFiles = inv[p].count0 - 1

C7_Witness ==
    \E p \in Procs :
        /\ inv[p].op = "delete" /\ inv[p].pc = "done" /\ inv[p].error = <<>>
        /\ inv[p].wasLive /\ inv[p].count0 = 2
        /\ storageStats.totalFiles = 1

RECURSIVE SavedOver(_, _)
SavedOver(files, compressedOnly) ==
    IF files = <<>> THEN 0
    ELSE (IF (compressedOnly /\ Head(files).isCompressed)
             \/ (~compressedOnly /\ Head(files).originalSize # 0)
          THEN Head(files).originalSize - Head(files).compressedSize
          ELSE 0)
         + SavedOver(Tail(files), compressedOnly)

\* C8, as claimed: spaceSaved is the sum of originalSize - compressedSize over
\* exactly the records with isCompressed = true.
C8_SavedOverCompressed ==
    ret.call = "getStorageStats"
        => ret.value.spaceSaved = SavedOver(GetAllOfflineFiles(store), TRUE)

\* C8, amended: spaceSaved is the sum of originalSize - compressedSize over
\* the records whose originalSize is not zero, whatever their isCompressed
\* flag; a record with originalSize = 0 adds nothing.
C8_SavedOverSized ==
    ret.call = "getStorageStats"
        => ret.value.spaceSaved = SavedOver(GetAllOfflineFiles(store), FALSE)

C8_Witness ==
    /\ ret.call = "getStorageStats"
    /\ \E r \in Records : r.isCompressed /\ r.originalSize = 0 /\ r.compressedSize > 0
    /\ \E r \in Records : ~r.isCompressed /\ r.originalSize > 0

Intact(st) == [k \in {j \in DOMAIN st : JSONParse(st[j]).ok} |-> st[k]]

\* C9: a listing returns exactly what it returns from the store with the
\* unparsable entries taken out.
C9_CorruptEntrySkipped ==
    /\ ret.call = "getAllOfflineFiles"
          => ret.value = GetAllOfflineFiles(Intact(store))
    /\ ret.call = "getOfflineFiles"
          => ret.value = GetOfflineFiles(Intact(store), ret.classCode)

C9_Witness ==
    /\ ret.call = "getOfflineFiles"
    /\ Len(ret.value) = 1
    /\ \E n \in Names :
          /\ StorageKey(ret.classCode, n) \in DOMAIN store
          /\ ~JSONParse(store[StorageKey(ret.classCode, n)]).ok

ScratchLive == {"size", "read", "write", "csize", "copy", "fsize", "rmtemp"}

\* C10: while a download holds its scratch file and the other download in
\* flight is for a different key, no step of the other one deletes or
\* overwrites that scratch file.
C10_ScratchUntouched ==
    [][\A p, q \in Procs :
          (/\ p # q /\ Downloading(p) /\ Downloading(q) /\ ~SameKey(p, q)
           /\ inv[p].pc \in ScratchLive
           /\ FileExists(TempPath(inv[p].name))
           /\ inv'[p] = inv[p])
            => /\ TempPath(inv[p].name) \in DOMAIN fs'
               /\ fs'[TempPath(inv[p].name)] = fs[TempPath(inv[p].name)]]_vars

Listed(files, name) == \E i \in DOMAIN files : files[i].name = name

\* C11: checkFileExists(c, n) is true exactly when getOfflineFiles(c) holds a
\* record named n, an entry that cannot be read back counting as absent.
C11_ExistsIffListed ==
    ret.call = "checkFileExists"
        => (ret.value <=> Listed(GetOfflineFiles(store, ret.classCode), ret.name))

NewestFirst(files) ==
    \A i \in 1..(Len(files) - 1) :
        GetTime(files[i].savedAt) >= GetTime(files[i + 1].savedAt)

\* C12: both listings come back newest savedAt first, whatever order the
\* records were created in.
C12_NewestFirst ==
    ret.call \in {"getAllOfflineFiles", "getOfflineFiles"} => NewestFirst(ret.value)

C12_Witness ==
    /\ ret.call = "getAllOfflineFiles"
    /\ Len(ret.value) = 2
    /\ GetTime(ret.value[1].savedAt) > GetTime(ret.value[2].savedAt)
    /\ GetAllKeys(store)[1] = StorageKey(ret.value[2].classCode, ret.value[2].name)

\* C13: updateFileCompressionInfo on a key that has no record throws the
\* not-found error and leaves the store as it was.
C13_UpdateNotFound ==
    [][(/\ ret'.call = "updateFileCompressionInfo"
        /\ StorageKey(ret'.classCode, ret'.name) \notin DOMAIN store)
          => /\ store' = store
             /\ Includes(ret'.error, "File record not found")]_vars

C13_Witness ==
    /\ ret.call = "updateFileCompressionInfo"
    /\ Includes(ret.error, "File record not found")
    /\ StorageKey(ret.classCode, ret.name) \notin DOMAIN store
    /\ store # EmptyMap

\* C14: while a key stays live, the savedAt of its record never changes.
C14_SavedAtImmutable ==
    [][\A k \in DOMAIN store \cap DOMAIN store' :
          (JSONParse(store[k]).ok /\ JSONParse(store'[k]).ok)
              => JSONParse(store'[k]).value.savedAt = JSONParse(store[k]).value.savedAt]_vars

\* a downloadAndStore call that got past the dashboard's own existence test
Started(p) ==
    /\ inv[p].op = "download"
    /\ inv[p].pc \notin {"idle", "precheck", "alert"}
    /\ inv[p].error # <<"Already Saved">>

\* C15: a downloadAndStore whose url is missing or does not start with
\* 'http' never fetches and never writes a durable file; it ends with the
\* invalid-URL error (or with the error of a directory that could not be
\* created) and the key has no record.
C15_InvalidUrlRejected ==
    \A p \in Procs :
        (Started(p) /\ ~StartsWith(inv[p].url, <<"http">>))
            => /\ ~inv[p].fetched
               /\ ~inv[p].wroteDurable
               /\ inv[p].pc \in {"check", "mkdir", "cleanup", "done"}
               /\ inv[p].pc = "done"
                     => /\ ~CheckFileExists(store, inv[p].classCode, inv[p].name)
                        /\ \/ inv[p].error = <<"Download failed: ">> \o InvalidUrl
                           \/ Includes(inv[p].error, "Cannot create directories: ")

C15_Witness ==
    \E p \in Procs :
        /\ Started(p) /\ inv[p].pc = "done"
        /\ inv[p].url = <<>>
        /\ inv[p].error = <<"Download failed: ">> \o InvalidUrl

TimersOf(id) == {i \in DOMAIN timers : timers[i].id = id}

\* C17: openFile on a path whose durable file is missing throws the
\* file-not-found error, and ends with it without having written a scratch
\* file, handed anything to a viewer or scheduled a cleanup.
C17_OpenNotFound ==
    [][\A p \in Procs :
          /\ (/\ inv[p].op = "open" /\ inv[p].pc = "oinfo" /\ inv'[p].pc # "oinfo"
              /\ ~FileExists(inv[p].localPath)
              /\ faults' = faults)
                => /\ inv'[p].pc = "ocleanup"
                   /\ inv'[p].thrown = FileNotFound
          /\ (/\ inv'[p].op = "open" /\ inv'[p].pc = "done"
              /\ inv'[p].thrown = FileNotFound)
                => /\ inv'[p].error = FileNotFound
                   /\ ~inv'[p].wroteScratch
                   /\ inv'[p].viewer = "" /\ inv'[p].linking = ""
                   /\ TimersOf(inv'[p].id) = {}]_vars

C17_Witness ==
    \E p \in Procs :
        /\ inv[p].op = "open" /\ inv[p].pc = "done"
        /\ inv[p].error = FileNotFound
        /\ ~FileExists(inv[p].localPath)

\* C18: a failure of the decompression (read, gunzip or write of the result)
\* is never thrown: openFile goes on to the fallback copy, which leaves the
\* durable bytes unchanged at the scratch path, and then on to the viewer;
\* the open fails at the copy only when the copy itself cannot be done.
C18_DecompressionFallback ==
    [][\A p \in Procs :
          inv[p].op = "open" =>
            /\ (inv[p].pc \in {"oread", "owrite"} /\ inv'[p] # inv[p])
                  => inv'[p].pc \in {"owrite", "ocopy", "overify"}
            /\ (inv[p].pc = "ocopy" /\ inv'[p] # inv[p])
                  => /\ inv'[p].pc \in {"overify", "ocleanup"}
                     /\ inv'[p].pc = "overify"
                           => /\ fs'[DecompressedPath(inv[p].name)] = fs[inv[p].localPath]
                              /\ fs'[inv[p].localPath] = fs[inv[p].localPath]
                     /\ (/\ faults' = faults /\ FileExists(inv[p].localPath)
                         /\ TempDir \in dirs)
                           => inv'[p].pc = "overify"
            /\ (/\ inv[p].pc = "overify" /\ inv[p].fallback /\ inv'[p] # inv[p]
                /\ faults' = faults /\ FileExists(DecompressedPath(inv[p].name)))
                  => inv'[p].pc = "oview"]_vars

C18_Witness ==
    \E p \in Procs :
        /\ inv[p].op = "open" /\ inv[p].pc = "done"
        /\ inv[p].fallback /\ inv[p].error = <<>>
        /\ FileExists(inv[p].localPath) /\ ~Gunzip(fs[inv[p].localPath]).ok
        /\ FileExists(DecompressedPath(inv[p].name))
        /\ fs[DecompressedPath(inv[p].name)] = fs[inv[p].localPath]

\* C19: on every platform the generic handler is used only after the
\* platform's viewer was unavailable or failed, never after it succeeded, and
\* an unavailable generic handler ends openFile with the no-viewer error.
C19_ViewerFallback ==
    \A p \in Procs :
        (inv[p].op = "open" /\ inv[p].pc = "done" /\ inv[p].platform # "")
            => /\ inv[p].viewer = "ok" => inv[p].linking = ""
               /\ inv[p].linking # "" => (inv[p].viewer = "failed" \/ inv[p].platform = "web")
               /\ inv[p].linking = "unavailable" => inv[p].error = NoViewer

\* C20: an openFile that returned has exactly one cleanup scheduled, for its
\* own scratch path and after its hand-off succeeded; a failed one has none;
\* a callback runs at most once and changes no handler's outcome; every
\* scheduled callback eventually runs.
C20_ScheduledCleanup ==
    /\ [](\A p \in Procs :
             (inv[p].op = "open" /\ inv[p].pc = "done")
                => /\ Cardinality(TimersOf(inv[p].id)) = IF inv[p].error = <<>> THEN 1 ELSE 0
                   /\ \A i \in TimersOf(inv[p].id) :
                         /\ timers[i].path = DecompressedPath(inv[p].name)
                         /\ inv[p].viewer = "ok" \/ inv[p].linking = "ok")
    /\ [](\A i \in DOMAIN timers : timers[i].attempts <= 1)
    /\ [][(timers' # timers /\ Len(timers') = Len(timers)) => inv' = inv]_vars
    /\ \A i \in 1..MaxOpens :
          (Len(timers) >= i) ~> (Len(timers) >= i /\ timers[i].attempts = 1)

C20_Witness ==
    \E i \in DOMAIN timers, p \in Procs :
        /\ timers[i].attempts = 1
        /\ ~FileExists(timers[i].path)
        /\ inv[p].op = "open" /\ inv[p].pc = "done" /\ inv[p].error = <<>>
        /\ inv[p].id = timers[i].id

\* C21: in every reachable store state getStorageStats().spaceSaved is not
\* negative, also when a record's compressed size exceeds its original size.
C21_SpaceSavedNotNegative ==
    GetStorageStats(store).spaceSaved >= 0

\* C22: downloadAndStore saves the record of its key only after it has
\* written the durable file: at the step that saves it the file is on disk at
\* the record's localPath, and while the call runs the key has no record as
\* long as the file has not been written.
C22_RecordAfterFile ==
    /\ [](\A p \in Procs :
             (/\ Downloading(p) /\ ~inv[p].hadEntry
              /\ CheckFileExists(store, inv[p].classCode, inv[p].name))
                => inv[p].wroteDurable)
    /\ [][\A p \in Procs :
             (inv[p].op = "download" /\ inv[p].pc = "save" /\ inv'[p].pc = "stats")
                => /\ inv[p].wroteDurable
                   /\ FileExists(CompressedPath(inv[p].name))
                   /\ StorageKey(inv[p].classCode, inv[p].name) \notin DOMAIN store
                   /\ JSONParse(store'[StorageKey(inv[p].classCode, inv[p].name)]).value.localPath
                         = CompressedPath(inv[p].name)]_vars

C22_Witness ==
    \E p \in Procs :
        /\ inv[p].op = "download" /\ inv[p].pc = "stats"
        /\ inv[p].wroteDurable /\ inv[p].fallback
        /\ CheckFileExists(store, inv[p].classCode, inv[p].name)
        /\ FileExists(inv[p].result)

LiveRecord(classCode, name) ==
    \E r \in Records : r.classCode = classCode /\ r.name = name

\* C23: at no point of a deletion, a failed record deletion included, is the
\* record of the key still live while its durable file is already missing.
C23_NoRecordOfMissingFile ==
    \A p \in Procs :
        (/\ inv[p].op = "delete" /\ inv[p].pc \in {"dinfo", "dfile", "drec", "stats", "done"}
         /\ inv[p].wasLive /\ inv[p].hadFile)
            => ~(/\ LiveRecord(inv[p].classCode, inv[p].name)
                 /\ ~FileExists(inv[p].localPath))

Returned(p) ==
    /\ inv[p].op = "download" /\ inv[p].pc \in {"stats", "done"}
    /\ inv[p].error = <<>> /\ inv[p].result # <<>>

\* C24: when downloadAndStore(c, {name: n, url: u}) has returned a path, the
\* store holds a record for (c, n) with that localPath and url u, whose
\* originalSize is the size of the fetched file and whose compressedSize is
\* the size of the durable file at the path, and that file exists.
C24_ReturnedPathRecorded ==
    \A p \in Procs :
        Returned(p) =>
            /\ CheckFileExists(store, inv[p].classCode, inv[p].name)
            /\ FileExists(inv[p].result)
            /\ LET parsed == JSONParse(store[StorageKey(inv[p].classCode, inv[p].name)])
               IN  /\ parsed.ok
                   /\ parsed.value.classCode = inv[p].classCode
                   /\ parsed.value.name = inv[p].name
                   /\ parsed.value.localPath = inv[p].result
                   /\ parsed.value.url = inv[p].url
                   /\ parsed.value.originalSize = inv[p].originalSize
                   /\ parsed.value.compressedSize = inv[p].compressedSize
                   /\ parsed.value.originalSize = Len(inv[p].body)
                   /\ parsed.value.compressedSize = Len(fs[inv[p].result])

C24_Witness ==
    \E p \in Procs :
        /\ Returned(p)
        /\ Len(inv[p].body) = 4
        /\ Len(fs[inv[p].result]) = 3

\* C25: a scratch deletion that fails after the durable file was written does
\* not fail the download: the call goes on to save the record and returns
\* the durable path.
C25_ScratchCleanupBestEffort ==
    [][\A p \in Procs :
          inv[p].op = "download" =>
            /\ (inv[p].pc = "rmtemp" /\ inv'[p] # inv[p])
                  => /\ inv'[p].pc = "save"
                     /\ inv'[p].thrown = <<>>
                     /\ inv[p].wroteDurable
                     /\ faults' # faults => fs' = fs
            /\ (/\ inv[p].pc = "save" /\ inv'[p] # inv[p]
                /\ FileExists(TempPath(inv[p].name)) /\ faults' = faults)
                  => /\ inv'[p].pc = "stats"
                     /\ inv'[p].result = CompressedPath(inv[p].name)
                     /\ CheckFileExists(store', inv[p].classCode, inv[p].name)]_vars

C25_Witness ==
    \E p \in Procs :
        /\ Returned(p)
        /\ inv[p].pc = "done"
        /\ FileExists(TempPath(inv[p].name))
        /\ FileExists(inv[p].result)
        /\ CheckFileExists(store, inv[p].classCode, inv[p].name)

\* C26: updateFileCompressionInfo(c, n, cs, os) on a key that has a record
\* sets compressedSize = cs, originalSize = os and isCompressed = true on it
\* and changes nothing else: not its classCode, name, localPath, url or
\* savedAt, and no entry of another key.
C26_UpdateFrame ==
    [][(/\ ret'.call = "updateFileCompressionInfo"
        /\ StorageKey(ret'.classCode, ret'.name) \in DOMAIN store
        /\ JSONParse(store[StorageKey(ret'.classCode, ret'.name)]).ok)
          => LET key == StorageKey(ret'.classCode, ret'.name)
             IN  /\ ret'.error = <<>>
                 /\ store' = [store EXCEPT ![key] = store'[key]]
                 /\ JSONParse(store'[key]) =
                       [ok |-> TRUE,
                        value |-> [JSONParse(store[key]).value EXCEPT
                                      !.compressedSize = ret'.compressedSize,
                                      !.originalSize = ret'.originalSize,
                                      !.isCompressed = TRUE]]]_vars

C26_Witness ==
    /\ ret.call = "updateFileCompressionInfo"
    /\ ret.error = <<>>
    /\ Cardinality(DOMAIN store) = 2
    /\ LET parsed == JSONParse(store[StorageKey(ret.classCode, ret.name)])
       IN  /\ parsed.ok
           /\ parsed.value.isCompressed
           /\ parsed.value.compressedSize = 2 /\ parsed.value.originalSize = 1
           /\ GetTime(parsed.value.savedAt) = 1

Plain(classCode) == \A i \in DOMAIN classCode : classCode[i] # "_"

AllPlain == \A r \in Records : Plain(r.classCode)

ClassScoped(files, classCode) ==
    {files[i] : i \in DOMAIN files} = {r \in Records : r.classCode = classCode}

\* C27: for all class codes and names, also those that contain the
\* underscore, two different (classCode, name) pairs never share a stored
\* entry and getOfflineFiles(c) returns exactly the live records of class c.
C27_KeyInjectiveScoped ==
    /\ \A c \in WideClassCodes, n \in WideNames :
          CheckFileExists(store, c, n) => LiveRecord(c, n)
    /\ ret.call = "getOfflineFiles" => ClassScoped(ret.value, ret.classCode)

\* what does hold: the same for class codes that do not contain the
\* underscore (names may contain it), while every stored record is of such
\* a class
KeyInjectivePlain ==
    /\ \A c1 \in WideClassCodes, c2 \in WideClassCodes, n1 \in WideNames, n2 \in WideNames :
          (Plain(c1) /\ Plain(c2) /\ StorageKey(c1, n1) = StorageKey(c2, n2))
              => (c1 = c2 /\ n1 = n2)
    /\ AllPlain =>
          /\ \A c \in WideClassCodes, n \in WideNames :
                (Plain(c) /\ CheckFileExists(store, c, n)) => LiveRecord(c, n)
          /\ (ret.call = "getOfflineFiles" /\ Plain(ret.classCode))
                => ClassScoped(ret.value, ret.classCode)

\* C28: two live records with different keys never have the same localPath.
C28_DistinctDurablePaths ==
    \A r1 \in Records, r2 \in Records :
        (r1.classCode # r2.classCode \/ r1.name # r2.name)
            => r1.localPath # r2.localPath

\* C29: while the cleanup a successful openFile scheduled has not run, no
\* other step deletes or overwrites the scratch file it handed to the viewer.
C29_ScratchOwnedByCall ==
    [][\A i \in DOMAIN timers :
          (/\ timers[i].attempts = 0
           /\ FileExists(timers[i].path)
           /\ timers'[i].attempts = 0)
            => /\ timers[i].path \in DOMAIN fs'
               /\ fs'[timers[i].path] = fs[timers[i].path]]_vars

StoredUrls ==
    {GetDownloadedMaterials(store)[i].url : i \in DOMAIN GetDownloadedMaterials(store)}

\* C30: when two downloadMaterial calls for two different URLs have both
\* returned successfully, the stored list holds an entry for each of them.
C30_NoLostMetadata ==
    \A p, q \in Procs :
        (/\ p # q
         /\ inv[p].op = "material" /\ inv[p].pc = "done" /\ inv[p].error = <<>>
         /\ inv[q].op = "material" /\ inv[q].pc = "done" /\ inv[q].error = <<>>
         /\ inv[p].url # inv[q].url)
            => {inv[p].url, inv[q].url} \subseteq StoredUrls

====
